---- MODULE Spec2Model ----
(***************************************************************************)
(* A model of upbit/client.py and upbit/exceptions.py: the UPBit REST      *)
(* client.  A call of one of the client's methods builds a Query, signs a  *)
(* payload (exchange API only), dispatches one HTTP request and turns the  *)
(* response into a returned value or a raised exception.                   *)
(*                                                                         *)
(* Python values are tagged records: None, str, int, bool, list, dict.     *)
(* A str is a sequence of atoms.  An atom is one character, or a run of    *)
(* unreserved characters written as one literal ("market", "KRW-BTC"),     *)
(* which percent-encoding leaves unchanged.                                *)
(*                                                                         *)
(* Third-party behaviour the code relies on (not part of the repository):  *)
(*   urllib.parse.urlencode  quote_plus of str(k) and str(v), joined by & *)
(*   hashlib.sha512          collision free: the digest names its input    *)
(*   jwt.encode (PyJWT 1.x, the API the code's .decode('utf-8') is         *)
(*                written for) TypeError for a key that is not str/bytes,  *)
(*                otherwise an HS256 token of (payload, key); an empty key *)
(*                is accepted                                              *)
(*   uuid.uuid4              never repeats a value                         *)
(***************************************************************************)
EXTENDS Integers, Sequences, FiniteSets, TLC

(***************************************************************************)
(* Bounds of the model.                                                    *)
(***************************************************************************)
MaxCalls == 2

\* Entries of a Query handed to _urlencode on its own.
MaxQueryLen == 2

\* Elements of a sequence value in such a Query.
MaxListLen == 2

(***************************************************************************)
(* Python values.                                                          *)
(***************************************************************************)
None == [t |-> "none"]

Str(s) == [t |-> "str", s |-> s]

PyInt(n) == [t |-> "int", n |-> n]

Bool(b) == [t |-> "bool", b |-> b]

List(items) == [t |-> "list", items |-> items]

\* An insertion-ordered mapping: a sequence of <<key, value>> pairs with
\* distinct keys; a key is a sequence of atoms.
Dict(items) == [t |-> "dict", items |-> items]

\* Python's truth value of an object (`if query:`, `not uuid_`).
Truthy(v) ==
    CASE v.t = "none" -> FALSE
      [] v.t = "str"  -> v.s # <<>>
      [] v.t = "int"  -> v.n # 0
      [] v.t = "bool" -> v.b
      [] v.t = "list" -> v.items # <<>>
      [] v.t = "dict" -> v.items # <<>>

Digits == <<"0", "1", "2", "3", "4", "5", "6", "7", "8", "9">>

RECURSIVE IntStr(_)
\* str(n) for a non-negative int: its decimal digits.
IntStr(n) ==
    IF n < 10 THEN <<Digits[n + 1]>>
    ELSE IntStr(n \div 10) \o <<Digits[(n % 10) + 1]>>

\* str(v) of a scalar, as urlencode and f-strings format it.
PyStr(v) ==
    CASE v.t = "none" -> <<"None">>
      [] v.t = "str"  -> v.s
      [] v.t = "int"  -> IntStr(v.n)
      [] v.t = "bool" -> IF v.b THEN <<"True">> ELSE <<"False">>

RECURSIVE Join(_, _)
\* sep.join(parts): parts is a sequence of strings.
Join(parts, sep) ==
    IF parts = <<>> THEN <<>>
    ELSE IF Len(parts) = 1 THEN parts[1]
    ELSE parts[1] \o sep \o Join(Tail(parts), sep)

\* quote_plus of one atom: a space becomes '+', a reserved character its
\* %XX escape, an unreserved atom stays.
QuoteAtom(c) ==
    CASE c = " " -> <<"+">>
      [] c = "&" -> <<"%", "2", "6">>
      [] c = "=" -> <<"%", "3", "D">>
      [] c = "[" -> <<"%", "5", "B">>
      [] c = "]" -> <<"%", "5", "D">>
      [] c = "%" -> <<"%", "2", "5">>
      [] c = "+" -> <<"%", "2", "B">>
      [] OTHER   -> <<c>>

RECURSIVE quote_plus(_)
quote_plus(s) ==
    IF s = <<>> THEN <<>> ELSE QuoteAtom(Head(s)) \o quote_plus(Tail(s))

\* urllib.parse.urlencode(encoded) of a mapping of scalars.
urlencode(items) ==
    Join([i \in 1..Len(items) |->
            quote_plus(items[i][1]) \o <<"=">> \o quote_plus(PyStr(items[i][2]))],
         <<"&">>)

\* UPBitClient._urlencode_sequence: '&'.join([f'{key}={item}' for item in seq])
_urlencode_sequence(key, seq) ==
    Join([i \in 1..Len(seq) |-> key \o <<"=">> \o PyStr(seq[i])], <<"&">>)

\* isinstance(v, Iterable) and not isinstance(v, str)
IsSequenceValue(v) == v.t = "list"

\* UPBitClient._urlencode: the scalars through urlencode, then '&', then
\* the sequence-valued keys as key[]=item groups.
_urlencode(query) ==
    LET items       == query.items
        encoded     == SelectSeq(items, LAMBDA kv : ~IsSequenceValue(kv[2]))
        seqs        == SelectSeq(items, LAMBDA kv : IsSequenceValue(kv[2]))
        encoded_seq == [i \in 1..Len(seqs) |->
                          _urlencode_sequence(seqs[i][1] \o <<"[", "]">>,
                                              seqs[i][2].items)]
    IN  urlencode(encoded) \o <<"&">> \o Join(encoded_seq, <<"&">>)

\* hashlib.sha512(data).hexdigest()
sha512_hexdigest(data) == [t |-> "sha512hex", of |-> data]

(***************************************************************************)
(* Request signing (UPBitClient._generate_payload, _generate_auth_header). *)
(***************************************************************************)
\* str(uuid.uuid4()) for the n-th identifier the generator hands out.
uuid4_str(n) == Str(<<"uuid4-">> \o IntStr(n))

\* _generate_payload testing `query is not None` in place of `if query:`.
_generate_payload_NotNone(self, nonce, query) ==
    LET payload == [access_key |-> self.API_KEY, nonce |-> nonce]
    IN  IF query.t # "none"
        THEN payload @@ [query_hash     |-> sha512_hexdigest(_urlencode(query)),
                         query_hash_alg |-> Str(<<"SHA512">>)]
        ELSE payload

\* _generate_payload with a nonce made once for the instance, not per call.
_generate_payload_ClientNonce(self, nonce, query) ==
    LET payload == [access_key |-> self.API_KEY,
                    nonce      |-> Str(<<"uuid4-of-">> \o self.API_KEY.s)]
    IN  IF Truthy(query)
        THEN payload @@ [query_hash     |-> sha512_hexdigest(_urlencode(query)),
                         query_hash_alg |-> Str(<<"SHA512">>)]
        ELSE payload

\* UPBitClient._generate_payload: access_key and nonce, and for a truthy
\* query the digest of its canonical string and the algorithm's name.
_generate_payload(self, nonce, query) ==
    LET payload == [access_key |-> self.API_KEY, nonce |-> nonce]
    IN  IF Truthy(query)
        THEN payload @@ [query_hash     |-> sha512_hexdigest(_urlencode(query)),
                         query_hash_alg |-> Str(<<"SHA512">>)]
        ELSE payload

\* jwt.encode(payload, key): HMACAlgorithm.prepare_key raises TypeError for
\* a key that is neither str nor bytes; any str, the empty one too, signs.
jwt_encode(payload, key) ==
    IF key.t # "str"
    THEN [raised |-> TRUE, exc |-> [kind |-> "TypeError", origin |-> "jwt.encode"]]
    ELSE [raised |-> FALSE,
          value  |-> [t |-> "jwt", alg |-> "HS256", payload |-> payload, key |-> key.s]]

\* _generate_auth_header without the 'Bearer ' scheme in front of the token.
_generate_auth_header_NoScheme(self, payload) ==
    LET enc == jwt_encode(payload, self.API_SECRET)
    IN  IF enc.raised THEN enc
        ELSE [raised |-> FALSE,
              value  |-> [Authorization |-> Str(<<enc.value>>)]]

\* UPBitClient._generate_auth_header: {'Authorization': f'Bearer {jwt_token}'}
_generate_auth_header(self, payload) ==
    LET enc == jwt_encode(payload, self.API_SECRET)
    IN  IF enc.raised THEN enc
        ELSE [raised |-> FALSE,
              value  |-> [Authorization |-> Str(<<"Bearer ", enc.value>>)]]

(***************************************************************************)
(* Responses (requests.Response) and their handling.                       *)
(***************************************************************************)
\* A JSON object is a function from its keys; the empty object has no key.
JObj(f) == [t |-> "object", f |-> f]

EmptyObj == [k \in {} |-> None]

\* v[key] for a parsed JSON value v and a str key.
Subscript(v, key) ==
    IF v.t = "object"
    THEN IF key \in DOMAIN v.f
         THEN [raised |-> FALSE, value |-> v.f[key]]
         ELSE [raised |-> TRUE, exc |-> [kind |-> "KeyError", key |-> key]]
    ELSE [raised |-> TRUE, exc |-> [kind |-> "TypeError", origin |-> "subscript"]]

\* str(response.status_code).startswith('2')
StartsWith2(status_code) == Head(IntStr(status_code)) = "2"

APIException_bad ==
    <<"Invalid JSON error message from UPBit: ">>

\* APIException.__init__: the exception `raise APIException(response)`
\* raises, which is the one __init__ raises when it does not complete.
APIException(response) ==
    IF ~response.is_json
    THEN [kind        |-> "APIException",
          name        |-> None,
          message     |-> Str(APIException_bad \o response.text),
          status_code |-> response.status_code]
    ELSE LET error == Subscript(response.json, "error")
         IN  IF error.raised THEN error.exc
             ELSE LET name    == Subscript(error.value, "name")
                      message == Subscript(error.value, "message")
                  IN  IF name.raised THEN name.exc
                      ELSE IF message.raised THEN message.exc
                      ELSE [kind        |-> "APIException",
                            name        |-> name.value,
                            message     |-> message.value,
                            status_code |-> response.status_code]

\* RequestException(message)
RequestException(message) == [kind |-> "RequestException", message |-> message]

\* _handle_response taking only the 4xx and 5xx statuses for failures.
_handle_response_From400(response) ==
    IF response.status_code >= 400
    THEN APIException(response)
    ELSE IF response.is_json
         THEN [kind |-> "return", value |-> response.json]
         ELSE RequestException(Str(<<"Invalid Response: ">> \o response.text))

\* _handle_response parsing the body before it looks at the status.
_handle_response_ParseFirst(response) ==
    IF ~response.is_json
    THEN RequestException(Str(<<"Invalid Response: ">> \o response.text))
    ELSE IF ~StartsWith2(response.status_code)
         THEN APIException(response)
         ELSE [kind |-> "return", value |-> response.json]

\* _handle_response returning the text of a body it cannot parse.
_handle_response_ReturnsText(response) ==
    IF ~StartsWith2(response.status_code)
    THEN APIException(response)
    ELSE IF response.is_json
         THEN [kind |-> "return", value |-> response.json]
         ELSE [kind |-> "return", value |-> Str(response.text)]

\* UPBitClient._handle_response: the call's outcome for a response.
_handle_response(response) ==
    IF ~StartsWith2(response.status_code)
    THEN APIException(response)
    ELSE IF response.is_json
         THEN [kind |-> "return", value |-> response.json]
         ELSE RequestException(Str(<<"Invalid Response: ">> \o response.text))

(***************************************************************************)
(* The state: the client instances, and the frame of the call in progress  *)
(* or last made by the running caller.  Callers that are not running have  *)
(* their frames parked in `saved`; with one caller nothing is ever parked. *)
(***************************************************************************)
VARIABLES
    clients,      \* client instance -> its API_KEY and API_SECRET
    pc,           \* "idle", "waiting" (blocked in requests.request), "done"
    call,         \* the method called, the instance and the arguments
    query,        \* the query argument _request / _public_request received
    payload,      \* the payload _generate_payload built for the call
    request,      \* the HTTP request handed to requests.request
    response,     \* the response requests.request returned
    outcome,      \* the value returned or the exception raised
    nextUuid,     \* identifiers uuid.uuid4 has handed out so far
    nCalls,       \* method calls made
    nDispatched,  \* HTTP requests dispatched
    nonces,       \* the instance and nonce of each signed request dispatched
    cur,          \* the caller that is running
    saved,        \* caller -> its parked frame
    arg,          \* the input of a helper applied on its own
    result        \* what the helper returned for arg

vars == <<clients, pc, call, query, payload, request, response, outcome,
          nextUuid, nCalls, nDispatched, nonces, cur, saved, arg, result>>

\* The callers (threads) that may use the client.
Callers == {1, 2}

\* The client instances constructed.
Clients == {1}

\* Constructor arguments: api_secret defaults to None.
ApiKeys == {Str(<<"access-key">>)}

ApiSecrets == {None, Str(<<>>), Str(<<"secret-key">>)}

\* UPBitClient.__init__
UPBitClient(api_key, api_secret) == [API_KEY |-> api_key, API_SECRET |-> api_secret]

API_URL == <<"https://api.upbit.com">>

API_VERSION == <<"v1">>

\* f"{API_URL}/{API_VERSION}/{path}"
Uri(path) == API_URL \o <<"/">> \o API_VERSION \o <<"/">> \o path

NoCall == [name |-> "none", self |-> 0, args |-> <<>>]

NoPayload == [built |-> FALSE]

NoRequest == [sent |-> FALSE]

NoResponse == [received |-> FALSE]

Pending == [kind |-> "pending"]

\* The frame of a caller that has made no call yet.
IdleFrame ==
    [pc |-> "idle", call |-> NoCall, query |-> None, payload |-> NoPayload,
     request |-> NoRequest, response |-> NoResponse, outcome |-> Pending]

\* The slot of the running caller: its frame is in the frame variables.
Running == [pc |-> "running"]

\* No helper is applied on its own.
NoHelper ==
    /\ arg = None
    /\ result = None

\* Caller 1 runs; the others have made no call.
OneRunning ==
    /\ cur = 1
    /\ saved = [t \in Callers |-> IF t = 1 THEN Running ELSE IdleFrame]

\* The frame and the counters before the first call.
NoCallYet ==
    /\ pc = "idle"
    /\ call = NoCall
    /\ query = None
    /\ payload = NoPayload
    /\ request = NoRequest
    /\ response = NoResponse
    /\ outcome = Pending
    /\ nextUuid = 0
    /\ nCalls = 0
    /\ nDispatched = 0
    /\ nonces = <<>>

Init ==
    /\ clients \in [Clients -> {UPBitClient(k, s) : k \in ApiKeys, s \in ApiSecrets}]
    /\ NoCallYet
    /\ OneRunning
    /\ NoHelper

\* A method is entered: the caller is not inside another call.
Enter(name, self, args) ==
    /\ pc \in {"idle", "done"}
    /\ nCalls < MaxCalls
    /\ call' = [name |-> name, self |-> self, args |-> args]
    /\ nCalls' = nCalls + 1
    /\ response' = NoResponse
    /\ UNCHANGED <<clients, cur, saved, arg, result>>

\* The method raises before it reaches _request.
Raise(exc) ==
    /\ query' = None
    /\ payload' = NoPayload
    /\ request' = NoRequest
    /\ outcome' = exc
    /\ pc' = "done"
    /\ UNCHANGED <<nextUuid, nDispatched, nonces>>

\* The keyword arguments the methods hand to _request besides query: none.
NoKwargs == Dict(<<>>)

\* _request taking over the payload another caller has built on the
\* instance, when there is one, in place of building its own.
_request_SharedPayload(self, method, path, query_, kwargs) ==
    LET own      == _generate_payload(clients[self], uuid4_str(nextUuid), query_)
        others   == {t \in Callers \ {cur} : saved[t].payload.built}
        payload_ == IF others = {} THEN own
                    ELSE saved[CHOOSE t \in others : TRUE].payload.value
        auth     == _generate_auth_header(clients[self], payload_)
    IN  /\ query' = query_
        /\ nextUuid' = nextUuid + 1
        /\ payload' = [built |-> TRUE, value |-> payload_]
        /\ IF auth.raised
           THEN /\ request' = NoRequest
                /\ outcome' = auth.exc
                /\ pc' = "done"
                /\ UNCHANGED <<nDispatched, nonces>>
           ELSE /\ request' = [sent    |-> TRUE,
                               method  |-> method,
                               uri     |-> Uri(path),
                               headers |-> EmptyObj @@ auth.value,
                               params  |-> kwargs]
                /\ outcome' = Pending
                /\ pc' = "waiting"
                /\ nDispatched' = nDispatched + 1
                /\ nonces' = Append(nonces, [self |-> self, nonce |-> payload_.nonce])

\* UPBitClient._request, up to the call of requests.request.
_request(self, method, path, query_, kwargs) ==
    LET payload_ == _generate_payload(clients[self], uuid4_str(nextUuid), query_)
        auth     == _generate_auth_header(clients[self], payload_)
    IN  /\ query' = query_
        /\ nextUuid' = nextUuid + 1
        /\ payload' = [built |-> TRUE, value |-> payload_]
        /\ IF auth.raised
           THEN /\ request' = NoRequest
                /\ outcome' = auth.exc
                /\ pc' = "done"
                /\ UNCHANGED <<nDispatched, nonces>>
           ELSE /\ request' = [sent    |-> TRUE,
                               method  |-> method,
                               uri     |-> Uri(path),
                               headers |-> EmptyObj @@ auth.value,
                               params  |-> kwargs]
                /\ outcome' = Pending
                /\ pc' = "waiting"
                /\ nDispatched' = nDispatched + 1
                /\ nonces' = Append(nonces, [self |-> self, nonce |-> payload_.nonce])

\* UPBitClient._public_request, up to the call of requests.request.
_public_request(method, path, query_) ==
    /\ query' = query_
    /\ payload' = NoPayload
    /\ request' = [sent    |-> TRUE,
                   method  |-> method,
                   uri     |-> Uri(path),
                   headers |-> EmptyObj,
                   params  |-> query_]
    /\ outcome' = Pending
    /\ pc' = "waiting"
    /\ nDispatched' = nDispatched + 1
    /\ UNCHANGED <<nextUuid, nonces>>

(***************************************************************************)
(* The responses the exchange may send.                                    *)
(***************************************************************************)
Statuses == {200, 201, 302, 404}

Response(status_code, text, is_json, json) ==
    [received |-> TRUE, status_code |-> status_code, text |-> text,
     is_json |-> is_json, json |-> json]

\* Bodies: text, whether response.json() parses it, and the parsed value.
Bodies ==
    << [text |-> <<"[{\"market\": \"KRW-BTC\"}]">>, is_json |-> TRUE,
        json |-> List(<<JObj([market |-> Str(<<"KRW-BTC">>)])>>)],
       [text |-> <<"{\"error\": {\"name\": \"invalid_market\", \"message\": \"market not found\"}}">>,
        is_json |-> TRUE,
        json |-> JObj([error |-> JObj([name    |-> Str(<<"invalid_market">>),
                                       message |-> Str(<<"market not found">>)])])],
       [text |-> <<"{\"error\": {\"name\": \"server_error\"}}">>, is_json |-> TRUE,
        json |-> JObj([error |-> JObj([name |-> Str(<<"server_error">>)])])],
       [text |-> <<"{}">>, is_json |-> TRUE, json |-> JObj(EmptyObj)],
       [text |-> <<"{\"error\": \"too_many_requests\"}">>, is_json |-> TRUE,
        json |-> JObj([error |-> Str(<<"too_many_requests">>)])],
       [text |-> <<"<html>Bad Gateway</html>">>, is_json |-> FALSE, json |-> None] >>

\* The response handled with a retry: a non-2xx response sends the request again.
Respond_Retry ==
    /\ pc = "waiting"
    /\ \E status_code \in Statuses, i \in 1..Len(Bodies) :
          LET r == Response(status_code, Bodies[i].text, Bodies[i].is_json, Bodies[i].json)
          IN  /\ response' = r
              /\ IF StartsWith2(status_code)
                 THEN /\ outcome' = _handle_response(r)
                      /\ pc' = "done"
                      /\ UNCHANGED nDispatched
                 ELSE /\ outcome' = Pending
                      /\ pc' = "waiting"
                      /\ nDispatched' = nDispatched + 1
    /\ UNCHANGED <<clients, call, query, payload, request, nextUuid, nCalls>>
    /\ UNCHANGED <<nonces, cur, saved, arg, result>>

\* requests.request returns and _handle_response settles the call.
Respond ==
    /\ pc = "waiting"
    /\ \E status_code \in Statuses, i \in 1..Len(Bodies) :
          LET r == Response(status_code, Bodies[i].text, Bodies[i].is_json, Bodies[i].json)
          IN  /\ response' = r
              /\ outcome' = _handle_response(r)
    /\ pc' = "done"
    /\ UNCHANGED <<clients, call, query, payload, request, nextUuid, nCalls, nDispatched>>
    /\ UNCHANGED <<nonces, cur, saved, arg, result>>

(***************************************************************************)
(* Arguments the callers pass.                                             *)
(***************************************************************************)
Markets == {Str(<<"KRW-BTC">>), Str(<<>>)}

\* uuid_ / identifier of get_order_info and cancel_order: absent, empty, given.
OrderIds == {None, Str(<<>>), Str(<<"order-1">>)}

Currencies == {None, Str(<<"BTC">>)}

\* Sequence[str] arguments; an element may hold reserved characters.
StrLists == {List(<<>>), List(<<Str(<<"a", "&", "b">>), Str(<<"c">>)>>)}

\* One key: value entry of a dict display.
KV(k, v) == << <<k>>, v >>

\* `if v: query[k] = v`
Opt(k, v) == IF Truthy(v) THEN <<KV(k, v)>> ELSE <<>>

\* dict.update(other): the dict is changed in place; the call returns None.
dict_update(d, other) ==
    [dict |-> Dict(d.items \o other.items), returns |-> None]

(***************************************************************************)
(* Exchange API (authenticated).                                           *)
(***************************************************************************)
accounts(self) ==
    /\ Enter("accounts", self, <<>>)
    /\ _request(self, "get", <<"accounts">>, None, NoKwargs)

order_chance(self, market) ==
    /\ Enter("order_chance", self, <<market>>)
    /\ _request(self, "get", <<"orders/chance">>,
                Dict(<<KV("market", market)>>), NoKwargs)

\* get_order_info testing `is None` in place of the arguments' truth value.
get_order_info_IsNone(self, uuid_, identifier) ==
    /\ Enter("get_order_info", self, <<uuid_, identifier>>)
    /\ IF uuid_ = None /\ identifier = None
       THEN Raise([kind |-> "TypeError", origin |-> "get_order_info"])
       ELSE _request(self, "get", <<"order">>,
                     Dict(Opt("uuid", uuid_) \o Opt("identifier", identifier)),
                     NoKwargs)

get_order_info(self, uuid_, identifier) ==
    /\ Enter("get_order_info", self, <<uuid_, identifier>>)
    /\ IF ~Truthy(uuid_) /\ ~Truthy(identifier)
       THEN Raise([kind |-> "TypeError", origin |-> "get_order_info"])
       ELSE _request(self, "get", <<"order">>,
                     Dict(Opt("uuid", uuid_) \o Opt("identifier", identifier)),
                     NoKwargs)

get_recent_trades(self, market, states, uuids, identifiers, kind, state, page, limit, order_by) ==
    /\ Enter("get_recent_trades", self,
             <<market, states, uuids, identifiers, kind, state, page, limit, order_by>>)
    /\ _request(self, "get", <<"orders">>,
                Dict(<<KV("market", market), KV("states", states),
                       KV("uuids", uuids), KV("identifiers", identifiers),
                       KV("kind", kind), KV("state", state), KV("page", page),
                       KV("limit", limit), KV("order_by", order_by)>>),
                NoKwargs)

cancel_order(self, uuid_, identifier) ==
    /\ Enter("cancel_order", self, <<uuid_, identifier>>)
    /\ IF ~Truthy(uuid_) /\ ~Truthy(identifier)
       THEN Raise([kind |-> "TypeError", origin |-> "cancel_order"])
       ELSE _request(self, "delete", <<"order">>,
                     Dict(<<KV("uuid", uuid_), KV("identifier", identifier)>>),
                     NoKwargs)

\* UPBitClient._order: query is what kwargs.update({'side': side}) returns.
_order(self, side, kwargs) ==
    _request(self, "post", <<"orders">>,
             dict_update(kwargs, Dict(<<KV("side", side)>>)).returns, NoKwargs)

\* The keyword arguments purchase and sell hand to _order.
OrderKwargs(market, volume, price, ord_type, identifier) ==
    Dict(<<KV("market", market), KV("volume", volume), KV("price", price),
           KV("ord_type", ord_type), KV("identifier", identifier)>>)

purchase(self, market, volume, price, ord_type, identifier) ==
    /\ Enter("purchase", self, <<market, volume, price, ord_type, identifier>>)
    /\ _order(self, Str(<<"bid">>),
              OrderKwargs(market, volume, price, ord_type, identifier))

sell(self, market, volume, price, ord_type, identifier) ==
    /\ Enter("sell", self, <<market, volume, price, ord_type, identifier>>)
    /\ _order(self, Str(<<"ask">>),
              OrderKwargs(market, volume, price, ord_type, identifier))

get_withdraws(self, kwargs) ==
    /\ Enter("get_withdraws", self, <<kwargs>>)
    /\ _request(self, "get", <<"withdraws">>, kwargs, NoKwargs)

get_withdraw(self, uuid_, txid, currency) ==
    /\ Enter("get_withdraw", self, <<uuid_, txid, currency>>)
    /\ _request(self, "get", <<"withdraw">>,
                Dict(Opt("uuid", uuid_) \o Opt("txid", txid) \o Opt("currency", currency)),
                NoKwargs)

widthdraws_chance(self, currency) ==
    /\ Enter("widthdraws_chance", self, <<currency>>)
    /\ _request(self, "get", <<"widthraws/chance">>,
                Dict(Opt("currency", currency)), NoKwargs)

withdraw_in_coin(self, currency, amount, address, secondary_address, transaction_type) ==
    /\ Enter("withdraw_in_coin", self,
             <<currency, amount, address, secondary_address, transaction_type>>)
    /\ _request(self, "post", <<"withdraws/coin">>,
                Dict(<<KV("currency", currency), KV("amount", amount),
                       KV("address", address)>>
                     \o Opt("secondary_address", secondary_address)
                     \o Opt("transaction_type", transaction_type)),
                NoKwargs)

withdraw_in_krw(self, amount) ==
    /\ Enter("withdraw_in_krw", self, <<amount>>)
    /\ _request(self, "post", <<"withdraws/krw">>,
                Dict(<<KV("amount", amount)>>), NoKwargs)

get_deposits(self, currency, state, uuids, txids, limit, page, order_by) ==
    /\ Enter("get_deposits", self,
             <<currency, state, uuids, txids, limit, page, order_by>>)
    /\ _request(self, "get", <<"deposits">>,
                Dict(<<KV("currency", currency), KV("state", state),
                       KV("uuids", uuids), KV("txids", txids),
                       KV("limit", limit), KV("page", page),
                       KV("order_by", order_by)>>),
                NoKwargs)

get_deposit(self, uuid, txid, currency) ==
    /\ Enter("get_deposit", self, <<uuid, txid, currency>>)
    /\ _request(self, "get", <<"deposit">>,
                Dict(<<KV("uuid", uuid), KV("txid", txid),
                       KV("currency", currency)>>),
                NoKwargs)

generate_coin_address(self, currency) ==
    /\ Enter("generate_coin_address", self, <<currency>>)
    /\ _request(self, "post", <<"deposits/generate_coin_address">>,
                Dict(<<KV("currency", currency)>>), NoKwargs)

get_coin_addresses(self) ==
    /\ Enter("get_coin_addresses", self, <<>>)
    /\ _request(self, "get", <<"deposits/coin_addresses">>, None, NoKwargs)

get_coin_address(self, currency) ==
    /\ Enter("get_coin_address", self, <<currency>>)
    /\ _request(self, "get", <<"deposits/coin_address">>,
                Dict(<<KV("currency", currency)>>), NoKwargs)

wallet_status(self) ==
    /\ Enter("wallet_status", self, <<>>)
    /\ _request(self, "get", <<"status/wallet">>, None, NoKwargs)

api_keys(self) ==
    /\ Enter("api_keys", self, <<>>)
    /\ _request(self, "get", <<"api_keys">>, None, NoKwargs)

(***************************************************************************)
(* Quotation API (public, static methods: no instance).                    *)
(***************************************************************************)
\* str.lower() of str(bool).
Lower(s) == [i \in 1..Len(s) |->
               CASE s[i] = "True" -> "true" [] s[i] = "False" -> "false" [] OTHER -> s[i]]

get_markets(detail) ==
    /\ Enter("get_markets", 0, <<detail>>)
    /\ _public_request("get", <<"market/all">>,
                       Dict(<<KV("detail", Str(Lower(PyStr(detail))))>>))

\* str.isnumeric of one character.
IsNumeric(c) == \E i \in 1..Len(Digits) : Digits[i] = c

\* str.startswith
StartsWith(s, prefix) ==
    /\ Len(s) >= Len(prefix)
    /\ SubSeq(s, 1, Len(prefix)) = prefix

\* The period names, character by character.
MinutePeriod(unit) == Str(<<"m", "i", "n">> \o unit)

Week == Str(<<"w", "e", "e", "k">>)

Day == Str(<<"d", "a", "y">>)

Month == Str(<<"m", "o", "n", "t", "h">>)

MinuteUnits == {<<"1">>, <<"3">>, <<"5">>, <<"1", "0">>, <<"1", "5">>,
                <<"3", "0">>, <<"6", "0">>, <<"2", "4", "0">>}

Periods == {MinutePeriod(u) : u \in MinuteUnits} \cup {Week, Day, Month, Str(<<"m">>)}

\* The path with the minute branch taken for every period that starts with 'm'.
CandlePath_AnyM(period) ==
    LET unit == SelectSeq(period.s, IsNumeric)
    IN  <<"candles/">> \o
        (IF StartsWith(period.s, <<"m">>) THEN <<"minutes/">> \o unit
         ELSE IF period = Week THEN <<"weeks">>
         ELSE IF period = Day THEN <<"days">>
         ELSE IF period = Month THEN <<"months">>
         ELSE <<>>)

\* The path get_candle_tickers requests for a period.
CandlePath(period) ==
    LET unit == SelectSeq(period.s, IsNumeric)
    IN  <<"candles/">> \o
        (IF StartsWith(period.s, <<"m", "i", "n">>) THEN <<"minutes/">> \o unit
         ELSE IF period = Week THEN <<"weeks">>
         ELSE IF period = Day THEN <<"days">>
         ELSE IF period = Month THEN <<"months">>
         ELSE <<>>)

get_candle_tickers(period, market, to, count, price_unit) ==
    /\ Enter("get_candle_tickers", 0, <<period, market, to, count, price_unit>>)
    /\ _public_request("get", CandlePath(period),
                       Dict(<<KV("count", count), KV("market", market), KV("to", to)>>
                            \o Opt("convertingPriceUnit", price_unit)))

get_recent_trade_ticks(market, count, cursor, days_ago, to) ==
    /\ Enter("get_recent_trade_ticks", 0, <<market, count, cursor, days_ago, to>>)
    /\ _public_request("get", <<"trades/ticks">>,
                       Dict(<<KV("market", market), KV("to", to), KV("count", count),
                              KV("cursor", cursor), KV("days_ago", days_ago)>>))

get_ticker(market_code) ==
    /\ Enter("get_ticker", 0, <<market_code>>)
    /\ _public_request("get", <<"ticker">>, Dict(<<KV("markets", market_code)>>))

get_order_book(markets) ==
    /\ Enter("get_order_book", 0, <<markets>>)
    /\ _public_request("get", <<"orderbook">>, Dict(<<KV("markets", markets)>>))

(***************************************************************************)
(* The specification: a caller makes one call after another.               *)
(***************************************************************************)
Next ==
    \/ \E self \in Clients : accounts(self)
    \/ \E self \in Clients, market \in Markets : order_chance(self, market)
    \/ \E self \in Clients, uuid_ \in OrderIds, identifier \in OrderIds :
          get_order_info(self, uuid_, identifier)
    \/ \E self \in Clients, uuids \in StrLists :
          get_recent_trades(self, Str(<<"KRW-BTC">>),
                            List(<<Str(<<"done">>), Str(<<"cancel">>)>>), uuids,
                            List(<<>>), Str(<<"normal">>), Str(<<"wait">>),
                            PyInt(1), PyInt(100), Str(<<"desc">>))
    \/ \E self \in Clients, uuid_ \in OrderIds, identifier \in OrderIds :
          cancel_order(self, uuid_, identifier)
    \/ \E self \in Clients, market \in Markets :
          purchase(self, market, PyInt(1), PyInt(5000), Str(<<"limit">>),
                   Str(<<"order-1">>))
    \/ \E self \in Clients, market \in Markets :
          sell(self, market, PyInt(1), PyInt(5000), Str(<<"limit">>),
               Str(<<"order-1">>))
    \/ \E self \in Clients,
          kwargs \in {Dict(<<>>), Dict(<<KV("currency", Str(<<"BTC">>))>>)} :
          get_withdraws(self, kwargs)
    \/ \E self \in Clients, uuid_ \in {None, Str(<<"withdraw-1">>)},
          currency \in Currencies :
          get_withdraw(self, uuid_, None, currency)
    \/ \E self \in Clients, currency \in Currencies : widthdraws_chance(self, currency)
    \/ \E self \in Clients, secondary_address \in {None, Str(<<"tag 7">>)} :
          withdraw_in_coin(self, Str(<<"BTC">>), PyInt(1), Str(<<"addr">>),
                           secondary_address, None)
    \/ \E self \in Clients : withdraw_in_krw(self, PyInt(10000))
    \/ \E self \in Clients, uuids \in StrLists :
          get_deposits(self, Str(<<"BTC">>), Str(<<"accepted">>), uuids, List(<<>>),
                       PyInt(100), PyInt(1), Str(<<"desc">>))
    \/ \E self \in Clients, currency \in Currencies :
          get_deposit(self, Str(<<"deposit-1">>), None, currency)
    \/ \E self \in Clients : generate_coin_address(self, Str(<<"BTC">>))
    \/ \E self \in Clients : get_coin_addresses(self)
    \/ \E self \in Clients : get_coin_address(self, Str(<<"BTC">>))
    \/ \E self \in Clients : wallet_status(self)
    \/ \E self \in Clients : api_keys(self)
    \/ \E detail \in {Bool(FALSE), Bool(TRUE)} : get_markets(detail)
    \/ \E period \in Periods, price_unit \in {None, Str(<<"KRW">>)} :
          /\ price_unit # None => period = Day
          /\ get_candle_tickers(period, Str(<<"KRW-BTC">>), None, PyInt(200), price_unit)
    \/ \E market \in Markets : get_recent_trade_ticks(market, None, None, None, None)
    \/ \E market_code \in Markets : get_ticker(market_code)
    \/ \E markets \in Markets \cup StrLists : get_order_book(markets)
    \/ Respond

Spec == Init /\ [][Next]_vars

(***************************************************************************)
(* Properties.                                                             *)
(***************************************************************************)
\* The call in the frame is a call of an exchange (authenticated) method.
Authenticated == call.self \in Clients

\* The status code is outside 200..299.
Non2xx == response.status_code < 200 \/ response.status_code > 299

\* C1: the payload _generate_payload builds holds query_hash exactly when
\* the query it was given is non-empty; with query_hash it holds
\* query_hash_alg = "SHA512"; without, only access_key and nonce.
C1_QueryHashIffQuery ==
    payload.built =>
        LET keys     == DOMAIN payload.value
            nonEmpty == query.t = "dict" /\ Len(query.items) > 0
        IN  /\ ("query_hash" \in keys) <=> nonEmpty
            /\ "query_hash" \in keys =>
                  /\ "query_hash_alg" \in keys
                  /\ payload.value.query_hash_alg = Str(<<"SHA512">>)
            /\ ~nonEmpty => keys = {"access_key", "nonce"}

C1_Witness ==
    /\ payload.built
    /\ query.t = "dict"
    /\ Len(query.items) > 0
    /\ "query_hash" \in DOMAIN payload.value

\* C2: the request of an authenticated call with a non-empty query carries
\* that query's parameters.
C2_RequestCarriesQuery ==
    (Authenticated /\ request.sent /\ Truthy(query)) => request.params = query

\* The Query an order placement is to send: its arguments and the side.
OrderQuery ==
    dict_update(OrderKwargs(call.args[1], call.args[2], call.args[3],
                            call.args[4], call.args[5]),
                Dict(<<KV("side", Str(<<IF call.name = "purchase"
                                        THEN "bid" ELSE "ask">>))>>)).dict

\* C3: purchase and sell POST to 'orders' with the Query market, volume,
\* price, ord_type, identifier and side, and their payload holds query_hash
\* and query_hash_alg.
C3_OrderIsHashed ==
    (call.name \in {"purchase", "sell"} /\ payload.built) =>
        /\ query = OrderQuery
        /\ {"query_hash", "query_hash_alg"} \subseteq DOMAIN payload.value
        /\ request.sent =>
              /\ request.method = "post"
              /\ request.uri = Uri(<<"orders">>)

\* The response body is structured data with error.name and error.message.
HasErrorFields ==
    /\ response.is_json
    /\ response.json.t = "object"
    /\ "error" \in DOMAIN response.json.f
    /\ response.json.f.error.t = "object"
    /\ {"name", "message"} \subseteq DOMAIN response.json.f.error.f

\* C4: a non-2xx response whose body has error.name and error.message
\* raises an APIException with that name, that message and the status code.
C4_APIErrorFields ==
    (response.received /\ Non2xx /\ HasErrorFields) =>
        /\ outcome.kind = "APIException"
        /\ outcome.name = response.json.f.error.f.name
        /\ outcome.message = response.json.f.error.f.message
        /\ outcome.status_code = response.status_code

C4_Witness ==
    /\ Authenticated
    /\ response.received
    /\ response.status_code = 404
    /\ HasErrorFields
    /\ outcome.kind = "APIException"

\* s ends with suffix.
EndsWith(s, suffix) ==
    /\ Len(s) >= Len(suffix)
    /\ SubSeq(s, Len(s) - Len(suffix) + 1, Len(s)) = suffix

C6_InvalidSuccessBody ==
    (response.received /\ ~Non2xx /\ ~response.is_json) =>
        /\ outcome.kind = "RequestException"
        /\ EndsWith(outcome.message.s, response.text)

C6_Witness ==
    /\ response.received
    /\ response.status_code = 200
    /\ ~response.is_json
    /\ outcome.kind = "RequestException"

\* C7: a finished call has returned the parsed body of a 2xx response, or
\* raised an APIException, a RequestException or the caller/argument error.
C7_OutcomeKinds ==
    pc = "done" =>
        \/ /\ outcome.kind = "return"
           /\ response.received /\ ~Non2xx
           /\ outcome.value = response.json
        \/ outcome.kind \in {"APIException", "RequestException", "TypeError"}

\* Both identifying arguments of the call in the frame are absent or empty.
NoOrderId(c) ==
    /\ c.name \in {"get_order_info", "cancel_order"}
    /\ ~Truthy(c.args[1])
    /\ ~Truthy(c.args[2])

\* C8: get_order_info and cancel_order without uuid_ and identifier raise
\* TypeError; the step signs no payload and dispatches no request.
C8_NoDispatchWithoutId ==
    [][(nCalls' # nCalls /\ NoOrderId(call')) =>
          /\ pc' = "done"
          /\ outcome'.kind = "TypeError"
          /\ ~payload'.built
          /\ ~request'.sent
          /\ nextUuid' = nextUuid
          /\ nDispatched' = nDispatched]_vars

C8_Witness ==
    /\ NoOrderId(call)
    /\ call.args = <<None, Str(<<>>)>>
    /\ pc = "done"
    /\ outcome.kind = "TypeError"

\* C9: an authenticated call on a client whose secret key is absent or
\* empty dispatches no request and produces no Authorization header.
C9_NoSecretNoRequest ==
    (Authenticated /\ pc # "idle" /\ ~Truthy(clients[call.self].API_SECRET)) =>
        /\ ~request.sent
        /\ pc = "done"
        /\ outcome.kind \notin {"pending", "return"}

\* C10: a request of an exchange method carries exactly the header
\* Authorization: Bearer <token>, the token signed from the call's payload
\* with the client's secret; a request of a quotation method has no header.
C10_AuthorizationHeader ==
    request.sent =>
        IF Authenticated
        THEN /\ DOMAIN request.headers = {"Authorization"}
             /\ LET value == request.headers.Authorization
                IN  /\ value.t = "str"
                    /\ Len(value.s) = 2
                    /\ value.s[1] = "Bearer "
                    /\ value.s[2].t = "jwt"
                    /\ value.s[2].payload = payload.value
                    /\ value.s[2].key = clients[call.self].API_SECRET.s
        ELSE DOMAIN request.headers = {}

C10_Witness ==
    /\ request.sent
    /\ Authenticated
    /\ "Authorization" \in DOMAIN request.headers
    /\ "query_hash" \in DOMAIN payload.value

(***************************************************************************)
(* _urlencode applied on its own to the Queries of a bounded size.         *)
(***************************************************************************)
\* The sequences over S of at most n elements.
SeqsUpTo(S, n) == UNION {[1..k -> S] : k \in 0..n}

EncKeys == {"market", "uuids", "states"}

\* Scalar values: str (with reserved characters too), int, None.
ScalarValues ==
    {Str(<<"KRW-BTC">>), Str(<<"a", "&", "b">>), PyInt(100), None}

\* Elements of a sequence value; one holds '&', '=' and a space.
ElemValues == {Str(<<"c">>), Str(<<"a", "&", "=", " ", "b">>)}

ListValues == {List(items) : items \in SeqsUpTo(ElemValues, MaxListLen)}

\* The Queries: insertion-ordered, no key twice.
Queries ==
    {Dict(items) :
        items \in {q \in SeqsUpTo({KV(k, v) : k \in EncKeys,
                                               v \in ScalarValues \cup ListValues},
                                  MaxQueryLen) :
                      \A i, j \in 1..Len(q) : i # j => q[i][1] # q[j][1]}}

InitEncode ==
    /\ clients = [c \in Clients |-> UPBitClient(Str(<<"access-key">>), Str(<<"secret-key">>))]
    /\ NoCallYet
    /\ OneRunning
    /\ arg \in Queries
    /\ result = None

\* self._urlencode(query)
Encode ==
    /\ result = None
    /\ result' = Str(_urlencode(arg))
    /\ UNCHANGED <<clients, pc, call, query, payload, request, response, outcome>>
    /\ UNCHANGED <<nextUuid, nCalls, nDispatched, nonces, cur, saved, arg>>

NextEncode == Encode

SpecEncode == InitEncode /\ [][NextEncode]_vars

\* The positions of s at which pat starts.
Occurrences(s, pat) ==
    {i \in 1..(Len(s) - Len(pat) + 1) : SubSeq(s, i, i + Len(pat) - 1) = pat}

\* s holds, from position p on, exactly t and then ends or goes on with '&'.
HoldsAt(s, p, t) ==
    /\ p + Len(t) - 1 <= Len(s)
    /\ SubSeq(s, p, p + Len(t) - 1) = t
    /\ p + Len(t) <= Len(s) => s[p + Len(t)] = "&"

\* C11: for a sequence-valued key with N elements the canonical string has
\* exactly N occurrences of 'key[]=', the j-th followed by the
\* percent-encoded j-th element.
C11_SequenceItemsEncoded ==
    result # None =>
        \A i \in 1..Len(arg.items) :
            LET key   == arg.items[i][1]
                value == arg.items[i][2]
                pat   == key \o <<"[", "]", "=">>
                occ   == Occurrences(result.s, pat)
            IN  value.t = "list" =>
                  /\ Cardinality(occ) = Len(value.items)
                  /\ \A j \in 1..Len(value.items) :
                        LET p == CHOOSE o \in occ :
                                     Cardinality({x \in occ : x < o}) = j - 1
                        IN  HoldsAt(result.s, p + Len(pat),
                                    quote_plus(PyStr(value.items[j])))

\* Every value of the Query is a scalar.
ScalarOnly(q) == \A i \in 1..Len(q.items) : q.items[i][2].t # "list"

\* C12: for a Query of scalars the canonical string is the standard
\* encoding: key=percent_encoded(value) pairs in insertion order joined by
\* single '&', none in front, none at the end.
C12_ScalarsStandardEncoding ==
    (result # None /\ ScalarOnly(arg) /\ Len(arg.items) > 0) =>
        /\ result.s = urlencode(arg.items)
        /\ Head(result.s) # "&"
        /\ result.s[Len(result.s)] # "&"

(***************************************************************************)
(* The path of get_candle_tickers computed on its own for two periods.     *)
(***************************************************************************)
\* The documented periods: min1 .. min240, week, day, month.
DocumentedPeriods == {MinutePeriod(u) : u \in MinuteUnits} \cup {Week, Day, Month}

InitCandle ==
    /\ clients = [c \in Clients |-> UPBitClient(Str(<<"access-key">>), Str(<<"secret-key">>))]
    /\ NoCallYet
    /\ OneRunning
    /\ arg \in {[t |-> "periods", a |-> p, b |-> q] : p, q \in DocumentedPeriods}
    /\ result = None

\* The path of lines 782-792 for each of the two periods.
ResolvePaths ==
    /\ result = None
    /\ result' = [t |-> "paths", a |-> CandlePath(arg.a), b |-> CandlePath(arg.b)]
    /\ UNCHANGED <<clients, pc, call, query, payload, request, response, outcome>>
    /\ UNCHANGED <<nextUuid, nCalls, nDispatched, nonces, cur, saved, arg>>

NextCandle == ResolvePaths

SpecCandle == InitCandle /\ [][NextCandle]_vars

\* The path documented for a period: 'min<n>' gives candles/minutes/<n>.
DocumentedPath(period) ==
    IF period = Week THEN <<"candles/", "weeks">>
    ELSE IF period = Day THEN <<"candles/", "days">>
    ELSE IF period = Month THEN <<"candles/", "months">>
    ELSE <<"candles/", "minutes/">> \o SubSeq(period.s, 4, Len(period.s))

\* C13: each documented period resolves to its documented path, and two
\* different periods never resolve to the same path.
C13_CandlePaths ==
    result # None =>
        /\ result.a = DocumentedPath(arg.a)
        /\ result.b = DocumentedPath(arg.b)
        /\ arg.a # arg.b => result.a # result.b

C13_Witness ==
    /\ result # None
    /\ arg.a = MinutePeriod(<<"2", "4", "0">>)
    /\ arg.b = Month
    /\ result.a = <<"candles/", "minutes/", "2", "4", "0">>
    /\ result.b = <<"candles/", "months">>

\* C14: a call that passes its precondition check and signing dispatches
\* one request, at its entry; handling the response dispatches nothing and
\* ends the call; the requests dispatched never outnumber the calls made.
C14_OneRequestPerCall ==
    [][/\ nDispatched' <= nCalls'
       /\ nDispatched' \in {nDispatched, nDispatched + 1}
       /\ nDispatched' = nDispatched + 1 => nCalls' = nCalls + 1
       /\ (nCalls' = nCalls + 1 /\ outcome'.kind # "TypeError") =>
             /\ nDispatched' = nDispatched + 1
             /\ request'.sent
             /\ pc' = "waiting"
       /\ nCalls' = nCalls =>
             /\ nDispatched' = nDispatched
             /\ request' = request
       /\ pc = "waiting" =>
             /\ nCalls' = nCalls
             /\ pc' = "done"
             /\ outcome'.kind # "pending"]_vars

C14_Witness ==
    /\ nCalls = 2
    /\ nDispatched = 2
    /\ pc = "done"
    /\ response.received
    /\ Non2xx
    /\ outcome.kind = "APIException"

(***************************************************************************)
(* Several client instances used one call after another.                   *)
(***************************************************************************)
ManyClients == {1, 2}

InitClients ==
    /\ clients \in [ManyClients -> {UPBitClient(k, s) : k \in ApiKeys, s \in ApiSecrets}]
    /\ NoCallYet
    /\ OneRunning
    /\ NoHelper

NextClients ==
    \/ \E self \in ManyClients : accounts(self)
    \/ \E self \in ManyClients, market \in Markets : order_chance(self, market)
    \/ \E self \in ManyClients, uuid_ \in OrderIds : get_order_info(self, uuid_, None)
    \/ \E self \in ManyClients :
          purchase(self, Str(<<"KRW-BTC">>), PyInt(1), PyInt(5000), Str(<<"limit">>),
                   Str(<<"order-1">>))
    \/ \E market_code \in Markets : get_ticker(market_code)
    \/ Respond

SpecClients == InitClients /\ [][NextClients]_vars

\* C15: a call that signs takes the identifier the generator hands out
\* during that call for its nonce; the nonces of the signed requests
\* dispatched are pairwise different, whichever instances sent them; and
\* the token of a request is the one over the payload of its own call.
C15_FreshNoncePerCall ==
    [][/\ (nCalls' = nCalls + 1 /\ payload'.built) =>
             /\ nextUuid' = nextUuid + 1
             /\ payload'.value.nonce = uuid4_str(nextUuid)
             /\ \A i \in 1..Len(nonces) : nonces[i].nonce # payload'.value.nonce
             /\ payload.built => payload.value.nonce # payload'.value.nonce
       /\ \A i, j \in 1..Len(nonces') :
             i # j => nonces'[i].nonce # nonces'[j].nonce
       /\ (nCalls' = nCalls + 1 /\ request'.sent /\ call'.self # 0) =>
             /\ nonces' = Append(nonces, [self |-> call'.self,
                                          nonce |-> payload'.value.nonce])
             /\ request'.headers.Authorization.s[2].payload = payload'.value]_vars

C15_Witness ==
    /\ Len(nonces) = 2
    /\ nonces[1].self # nonces[2].self
    /\ nonces[1].nonce # nonces[2].nonce
    /\ request.sent
    /\ payload.built
    /\ payload.value.nonce = nonces[2].nonce

(***************************************************************************)
(* Concurrent callers on one shared instance.  A method keeps everything   *)
(* it computes in locals and reads self.API_KEY and self.API_SECRET only,  *)
(* so a caller's steps are the entry of a method up to requests.request    *)
(* and the handling of the response; another caller may run before, after  *)
(* and between them.                                                       *)
(***************************************************************************)
\* The frame of the running caller as a record.
Frame ==
    [pc |-> pc, call |-> call, query |-> query, payload |-> payload,
     request |-> request, response |-> response, outcome |-> outcome]

\* The running caller is suspended and caller t goes on where it stopped.
Switch(t) ==
    /\ t \in Callers \ {cur}
    /\ saved' = [saved EXCEPT ![cur] = Frame, ![t] = Running]
    /\ cur' = t
    /\ pc' = saved[t].pc
    /\ call' = saved[t].call
    /\ query' = saved[t].query
    /\ payload' = saved[t].payload
    /\ request' = saved[t].request
    /\ response' = saved[t].response
    /\ outcome' = saved[t].outcome
    /\ UNCHANGED <<clients, nextUuid, nCalls, nDispatched, nonces, arg, result>>

NextConc ==
    \/ \E self \in Clients : accounts(self)
    \/ \E self \in Clients, market \in Markets : order_chance(self, market)
    \/ \E self \in Clients, uuid_ \in OrderIds : get_order_info(self, uuid_, None)
    \/ \E market_code \in Markets : get_ticker(market_code)
    \/ Respond
    \/ \E t \in Callers : Switch(t)

SpecConc == Init /\ [][NextConc]_vars

\* A payload with its nonce blanked.
NoNonce(p) ==
    IF p.built THEN [built |-> TRUE, value |-> [p.value EXCEPT !.nonce = None]] ELSE p

\* A request with the nonce inside its token blanked.
RequestNoNonce(r) ==
    IF ~r.sent THEN r
    ELSE [method |-> r.method, uri |-> r.uri, params |-> r.params,
          auth   |-> IF "Authorization" \in DOMAIN r.headers
                     THEN LET h == r.headers.Authorization.s
                          IN  <<h[1], [h[2] EXCEPT !.payload.nonce = None]>>
                     ELSE None]

\* C16: on every step the credentials of the shared instance stay as
\* constructed and a step of the running caller leaves the frames of the
\* suspended callers alone; a call made with the arguments of a suspended
\* caller's call (in flight or finished) has the same query, the same
\* payload and request apart from the nonce, and, once both have the same
\* response, the same outcome; and it has a nonce of its own.
C16_CallsIndependent ==
    [][/\ clients' = clients
       /\ \A c \in Clients :
             /\ clients'[c].API_KEY \in ApiKeys
             /\ clients'[c].API_SECRET \in ApiSecrets
       /\ cur' = cur => saved' = saved
       /\ \A t \in Callers \ {cur'} :
             /\ (payload'.built /\ saved'[t].payload.built) =>
                   payload'.value.nonce # saved'[t].payload.value.nonce
             /\ (call'.name # "none" /\ saved'[t].call = call'
                   /\ pc' # "idle" /\ saved'[t].pc # "idle") =>
                   /\ query' = saved'[t].query
                   /\ NoNonce(payload') = NoNonce(saved'[t].payload)
                   /\ RequestNoNonce(request') = RequestNoNonce(saved'[t].request)
                   /\ (response' = saved'[t].response) => outcome' = saved'[t].outcome
                   /\ (~response'.received /\ pc' = "done" /\ saved'[t].pc = "done") =>
                         outcome' = saved'[t].outcome]_vars

\* Caller 1 is in flight while caller 2 has finished the same signed call.
C16_Witness ==
    /\ cur = 2
    /\ saved[1].pc = "waiting"
    /\ saved[1].call = call
    /\ call.self \in Clients
    /\ pc = "done"
    /\ response.received
    /\ payload.built
    /\ payload.value.nonce # saved[1].payload.value.nonce

====
